---- MODULE Spec2Model ----
(***************************************************************************)
(* Model of src/modules/mime.js of Mailvelope: the decoder parseMessage    *)
(* (parseMIME, parseInline, filterBodyParts) and the four mail builders    *)
(* (buildMail, buildPGPMail, buildTextMail, buildMailWithHeader).          *)
(*                                                                         *)
(* A JavaScript string is a sequence of tokens.  A token is one lexical    *)
(* unit of the text: an ordinary character, a whitespace character, a      *)
(* header name with its colon, a closing-tag marker, or a literal of the   *)
(* source.  The regular expressions of the source are evaluated on tokens. *)
(* The collaborators that are not part of mime.js (sanitizeHTML,           *)
(* text2autoLinkHtml, html2text, encodeHTML, ab2str, MimeBuilder.build)    *)
(* are uninterpreted: their result wraps the argument in a marker.         *)
(***************************************************************************)
EXTENDS Integers, Sequences, FiniteSets, TLC

\* Bounds of the explored inputs.
MaxNodes == 4
MaxMsgLen == 1
MaxAttachments == 1
MaxQuota == 3

----------------------------------------------------------------------------
\* Strings

Whitespace == {" "}
HeaderTokens == {"MIME-Version:", "Content-Type:", "Content-Transfer-Encoding:",
                 "From:", "Date:", "Content-Language:"}
ClosingTags == {"</a>", "<br>", "</div>", "</p>", "</b>", "</u>", "</i>", "</ul>", "</li>"}

mainContent == <<"This is an OpenPGP/MIME encrypted message (RFC 2440 and 3156)">>
pgpHeaderContent == <<"Version: 1">>

\* UTF-8 length of one token.
TokenBytes(tok) ==
  CASE tok = "a" -> 1
    [] tok = " " -> 1
    [] tok = "eacute" -> 2
    [] tok = "From:" -> 5
    [] tok = "</p>" -> 4
    [] tok = mainContent[1] -> 61
    [] tok = pgpHeaderContent[1] -> 10
    [] OTHER -> 1

RECURSIVE byteCount(_)
byteCount(str) ==
  IF str = <<>> THEN 0 ELSE TokenBytes(Head(str)) + byteCount(Tail(str))

RECURSIVE join(_, _)
join(strs, sep) ==
  IF strs = <<>> THEN <<>>
  ELSE IF Len(strs) = 1 THEN strs[1]
  ELSE strs[1] \o sep \o join(Tail(strs), sep)

map(seq, Op(_)) == [i \in 1..Len(seq) |-> Op(seq[i])]

sanitizeHTML(html) == <<"sanitizeHTML(">> \o html \o <<")">>
text2autoLinkHtml(text) == <<"text2autoLinkHtml(">> \o text \o <<")">>
html2text(html) == <<"html2text(">> \o html \o <<")">>
encodeHTML(text) == <<"encodeHTML(">> \o text \o <<")">>
ab2str(buf) == <<"ab2str(">> \o buf \o <<")">>

\* unescape(encodeURIComponent(rawText)): one token per UTF-8 byte.
RECURSIVE pseudoBinary(_)
pseudoBinary(rawText) ==
  IF rawText = <<>> THEN <<>>
  ELSE (IF Head(rawText) = "eacute" THEN <<"\\xC3", "\\xA9">> ELSE <<Head(rawText)>>)
       \o pseudoBinary(Tail(rawText))

\* /^\s*(MIME-Version|Content-Type|...):/.test(rawText)
MimeSignature(rawText) ==
  \E i \in 1..Len(rawText) :
    /\ rawText[i] \in HeaderTokens
    /\ \A j \in 1..(i - 1) : rawText[j] \in Whitespace

\* /(<\/a>|<br>|<\/div>|...)/.test(rawText)
LegacyHtml(rawText) == \E i \in 1..Len(rawText) : rawText[i] \in ClosingTags

----------------------------------------------------------------------------
\* Inputs

Alphabet == {"a", "eacute", " ", "From:", "</p>"}
Messages == UNION {[1..n -> Alphabet] : n \in 0..MaxMsgLen}
RawTexts == {<<>>, <<"a">>, <<"eacute", "a">>, <<"a", "</p>">>, <<"a", "From:">>,
             <<"From:", "a">>, <<" ", "From:">>}
Encodings == {"html", "text"}

\* The part tree the structural parser delivers, listed in depth-first order:
\* every node with its type and its nesting depth.  A "signed" node is a
\* container: its content is the array of its children.
PartTypes == {"text", "html", "attachment", "signed"}

MaxChildDepth(nodes) ==
  IF nodes = <<>> THEN 0
  ELSE IF nodes[Len(nodes)].type = "signed" THEN nodes[Len(nodes)].depth + 1
  ELSE nodes[Len(nodes)].depth

RECURSIVE NodeLists(_)
NodeLists(n) ==
  IF n = 0 THEN {<<>>}
  ELSE LET prev == NodeLists(n - 1)
       IN prev \cup UNION {
            {Append(f, [type |-> t, depth |-> d]) : t \in PartTypes, d \in 0..MaxChildDepth(f)}
            : f \in {g \in prev : Len(g) = n - 1}}

ParsedResults ==
  {[isNull |-> TRUE, nodes |-> <<>>]}
    \cup {[isNull |-> FALSE, nodes |-> f] : f \in NodeLists(MaxNodes)}

SubtreeEnd(nodes, i) ==
  LET later == {j \in (i + 1)..Len(nodes) : nodes[j].depth <= nodes[i].depth}
  IN IF later = {} THEN Len(nodes) + 1
     ELSE CHOOSE j \in later : \A k \in later : j <= k

PartContent(i) == <<"content", ToString(i)>>
PartFilename(i) == <<"filename", ToString(i)>>

RECURSIVE PartTree(_, _, _)
PartTree(nodes, lo, hi) ==
  IF lo >= hi THEN <<>>
  ELSE LET e == SubtreeEnd(nodes, lo)
           isArray == nodes[lo].type = "signed"
           part == [type |-> nodes[lo].type,
                    isArray |-> isArray,
                    content |-> IF isArray THEN <<>> ELSE PartContent(lo),
                    parts |-> IF isArray THEN PartTree(nodes, lo + 1, e) ELSE <<>>,
                    filename |-> IF nodes[lo].type = "attachment" THEN PartFilename(lo) ELSE <<>>]
       IN <<part>> \o PartTree(nodes, e, hi)

----------------------------------------------------------------------------
\* Decoder

\* What the caller's handlers and the promise observe, in the order it happens.
NoPart == [type |-> "none", isArray |-> FALSE, content |-> <<>>, parts |-> <<>>,
           filename |-> <<>>]
onMessage(msg) == [handler |-> "onMessage", msg |-> msg, part |-> NoPart]
onAttachment(part) == [handler |-> "onAttachment", msg |-> <<>>, part |-> part]
resolve == [handler |-> "resolve", msg |-> <<>>, part |-> NoPart]

RECURSIVE filterBodyPartsTopLevel(_, _, _)
filterBodyPartsTopLevel(bodyParts, type, result) ==
  IF bodyParts = <<>> THEN result
  ELSE filterBodyPartsTopLevel(Tail(bodyParts), type,
         IF Head(bodyParts).type = type THEN Append(result, Head(bodyParts)) ELSE result)

RECURSIVE filterBodyParts(_, _, _)
filterBodyParts(bodyParts, type, result) ==
  IF bodyParts = <<>> THEN result
  ELSE LET part == Head(bodyParts)
           pushed == IF part.type = type THEN Append(result, part)
                     ELSE IF part.isArray THEN filterBodyParts(part.parts, type, result)
                     ELSE result
       IN filterBodyParts(Tail(bodyParts), type, pushed)

PartContentOf(part) == part.content
AutoLinked(part) == text2autoLinkHtml(part.content)
PlainText(part) == html2text(part.content)

htmlSeparator == <<"\n<hr>\n">>
htmlFallbackSeparatorWithNewlines == <<"\n<hr>\n">>
htmlFallbackSeparator == <<"<hr>">>
textSeparator == <<"\n\n">>

htmlBodyPrefersText(parsed) ==
  LET htmlParts == filterBodyParts(parsed, "html", <<>>)
      textParts == filterBodyParts(parsed, "text", <<>>)
  IN IF Len(textParts) > 0
     THEN <<onMessage(join(map(textParts, AutoLinked), htmlFallbackSeparator))>>
     ELSE IF Len(htmlParts) > 0
     THEN <<onMessage(sanitizeHTML(join(map(htmlParts, PartContentOf), htmlSeparator)))>>
     ELSE <<>>

\* encoding === 'html'
htmlBody(parsed) ==
  LET htmlParts == filterBodyParts(parsed, "html", <<>>)
      textParts == filterBodyParts(parsed, "text", <<>>)
  IN IF Len(htmlParts) > 0
     THEN <<onMessage(sanitizeHTML(join(map(htmlParts, PartContentOf), htmlSeparator)))>>
     ELSE IF Len(textParts) > 0
     THEN <<onMessage(join(map(textParts, AutoLinked), htmlFallbackSeparator))>>
     ELSE <<>>

\* encoding === 'text'
textBody(parsed) ==
  LET textParts == filterBodyParts(parsed, "text", <<>>)
      htmlParts == filterBodyParts(parsed, "html", <<>>)
  IN IF Len(textParts) > 0
     THEN <<onMessage(join(map(textParts, PartContentOf), textSeparator))>>
     ELSE IF Len(htmlParts) > 0
     THEN <<onMessage(join(map(htmlParts, PlainText), textSeparator))>>
     ELSE <<>>

EmitAttachment(part) ==
  onAttachment([part EXCEPT !.filename = encodeHTML(part.filename),
                            !.content = ab2str(part.content)])

attachmentEvents(parsed) ==
  map(filterBodyParts(parsed, "attachment", <<>>), EmitAttachment)

noEventMessageInverted(handlers) ==
  IF ~handlers.noEvent THEN <<onMessage(<<>>)>> ELSE <<>>

noEventMessage(handlers) ==
  IF handlers.noEvent THEN <<onMessage(<<>>)>> ELSE <<>>

\* if (parsed && parsed.length > 0) { ... }: the body, then the attachments.
decodeParsed(parsed, encoding) ==
  LET tree == PartTree(parsed.nodes, 1, Len(parsed.nodes) + 1)
  IN IF ~parsed.isNull /\ Len(tree) > 0
     THEN (IF encoding = "html" THEN htmlBody(tree)
           ELSE IF encoding = "text" THEN textBody(tree)
           ELSE <<>>)
          \o attachmentEvents(tree)
     ELSE <<>>

parseMIMECallbackResolvesEarly(parsed, handlers, encoding) ==
  decodeParsed(parsed, encoding) \o <<resolve>> \o noEventMessage(handlers)

\* The callback handed to mailreader.parse, up to and including resolve().
parseMIMECallback(parsed, handlers, encoding) ==
  decodeParsed(parsed, encoding) \o noEventMessage(handlers) \o <<resolve>>

parseInlineInverted(rawText, handlers, encoding) ==
  (IF encoding # "html" THEN <<onMessage(text2autoLinkHtml(rawText))>>
   ELSE IF LegacyHtml(rawText) THEN <<onMessage(html2text(rawText))>>
   ELSE <<onMessage(rawText)>>)
  \o <<resolve>>

parseInline(rawText, handlers, encoding) ==
  (IF encoding = "html" THEN <<onMessage(text2autoLinkHtml(rawText))>>
   ELSE IF LegacyHtml(rawText) THEN <<onMessage(html2text(rawText))>>
   ELSE <<onMessage(rawText)>>)
  \o <<resolve>>

----------------------------------------------------------------------------
\* Builders

\* A MimeBuilder node.
NoNode == [contentType |-> "", filename |-> <<>>, headers |-> <<>>, content |-> <<>>,
           children |-> <<>>]
MimeBuilder(contentType) == [NoNode EXCEPT !.contentType = contentType]
createChild(filename) == [NoNode EXCEPT !.contentType = "null", !.filename = filename]
setHeader(node, headers) == [node EXCEPT !.headers = @ \o headers]
setContent(node, content) == [node EXCEPT !.content = content]
appendChild(node, child) == [node EXCEPT !.children = Append(@, child)]

\* The outcome of one builder call.
NoResult == [status |-> "none", code |-> "", isString |-> FALSE, text |-> <<>>,
             mime |-> NoNode, quotaSize |-> 0]
returned(text, quotaSize) ==
  [NoResult EXCEPT !.status = "returned", !.isString = TRUE, !.text = text,
                   !.quotaSize = quotaSize]
\* mainMessage.build(): the serialization of the node tree.
build(node, quotaSize) ==
  [NoResult EXCEPT !.status = "returned", !.mime = node, !.quotaSize = quotaSize]
MvError(code, quotaSize) ==
  [NoResult EXCEPT !.status = "thrown", !.code = code, !.quotaSize = quotaSize]

Undefined == [given |-> FALSE, value |-> 0]
Truthy(quota) == quota.given /\ quota.value # 0

\* quota && (quotaSize > quota)
quotaExceeded(quota, quotaSize) == Truthy(quota) /\ quotaSize > quota.value

RECURSIVE attachmentSizes(_)
attachmentSizes(attachments) ==
  IF attachments = <<>> THEN 0
  ELSE Head(attachments).size + attachmentSizes(Tail(attachments))

textMime(message) ==
  setContent(setHeader(MimeBuilder("text/plain"),
                       <<<<"content-transfer-encoding", <<"quoted-printable">>>>>>),
             message)

attachmentMime(attachment) ==
  setContent(setHeader(createChild(attachment.name),
                       <<<<"content-transfer-encoding", <<"base64">>>>,
                         <<"content-disposition", <<"attachment">>>>>>),
             attachment.content)

attachmentMimeWithId(attachment, id) ==
  setContent(setHeader(createChild(attachment.name),
                       <<<<"content-transfer-encoding", <<"base64">>>>,
                         <<"content-disposition", <<"attachment">>>>,
                         <<"X-Attachment-Id", <<"mv_", id>>>>,
                         <<"Content-ID", <<"<", "mv_", id, ">">>>>>>),
             attachment.content)

RECURSIVE appendAll(_, _)
appendAll(node, children) ==
  IF children = <<>> THEN node
  ELSE appendAll(appendChild(node, Head(children)), Tail(children))

buildMail(req) ==
  LET withText == IF req.message # <<>>
                  THEN appendChild(MimeBuilder("multipart/mixed"), textMime(req.message))
                  ELSE MimeBuilder("multipart/mixed")
      hasAttachment == Len(req.attachments) > 0
      mainMessage == appendAll(withText, map(req.attachments, attachmentMime))
      quotaSize == (IF req.message # <<>> THEN byteCount(req.message) ELSE 0)
                   + attachmentSizes(req.attachments)
  IN IF quotaExceeded(req.quota, quotaSize) THEN MvError("ENCRYPT_QUOTA_SIZE", quotaSize)
     ELSE IF hasAttachment \/ req.pgpMIME THEN build(mainMessage, quotaSize)
     ELSE returned(req.message, quotaSize)

addressHeaders(req) ==
  <<<<"from", req.sender>>, <<"to", join(req.to, <<", ">>)>>, <<"subject", req.subject>>>>

pgpEnvelope(req) ==
  setContent(
    setHeader(MimeBuilder("multipart/encrypted; protocol=\"application/pgp-encrypted\";"),
              addressHeaders(req)
                \o (IF req.cc.given THEN <<<<"cc", join(req.cc.list, <<", ">>)>>>>
                    ELSE <<>>)),
    mainContent)

pgpHeader ==
  setContent(setHeader(MimeBuilder("application/pgp-encrypted"),
                       <<<<"content-description", <<"PGP/MIME version identification">>>>>>),
             pgpHeaderContent)

pgpArmored(armored) ==
  setContent(setHeader(MimeBuilder("application/octet-stream; name=\"encrypted.asc\""),
                       <<<<"content-description", <<"OpenPGP encrypted message">>>>,
                         <<"content-disposition", <<"inline; filename=\"encrypted.asc\"">>>>>>),
             armored)

pgpQuotaSize(req) ==
  byteCount(mainContent) + byteCount(pgpHeaderContent) + byteCount(req.armored)

buildPGPMailArmoredFirst(req) ==
  LET mainMessage == appendChild(appendChild(pgpEnvelope(req), pgpArmored(req.armored)),
                                 pgpHeader)
  IN IF quotaExceeded(req.quota, pgpQuotaSize(req))
     THEN MvError("ENCRYPT_QUOTA_SIZE", pgpQuotaSize(req))
     ELSE build(mainMessage, pgpQuotaSize(req))

buildPGPMail(req) ==
  LET mainMessage == appendChild(appendChild(pgpEnvelope(req), pgpHeader),
                                 pgpArmored(req.armored))
  IN IF quotaExceeded(req.quota, pgpQuotaSize(req))
     THEN MvError("ENCRYPT_QUOTA_SIZE", pgpQuotaSize(req))
     ELSE build(mainMessage, pgpQuotaSize(req))

buildTextMail(req) ==
  LET mainMessage == setContent(setHeader(MimeBuilder("text/plain"), addressHeaders(req)),
                                req.armored)
      quotaSize == byteCount(req.armored)
  IN IF quotaExceeded(req.quota, quotaSize) THEN MvError("ENCRYPT_QUOTA_SIZE", quotaSize)
     ELSE build(mainMessage, quotaSize)

buildMailWithHeader(req) ==
  LET envelope == setHeader(MimeBuilder("multipart/mixed"), addressHeaders(req))
      withText == IF req.message # <<>> THEN appendChild(envelope, textMime(req.message))
                  ELSE envelope
      mainMessage == appendAll(withText,
                       [i \in 1..Len(req.attachments) |->
                          attachmentMimeWithId(req.attachments[i], req.ids[i])])
      quotaSize == (IF req.message # <<>> THEN byteCount(req.message) ELSE 0)
                   + attachmentSizes(req.attachments)
  IN IF quotaExceeded(req.quota, quotaSize) THEN MvError("ENCRYPT_QUOTA_SIZE", quotaSize)
     ELSE build(mainMessage, quotaSize)

----------------------------------------------------------------------------
\* The module's callers

VARIABLES pc, call, parsed, events, request, result
vars == <<pc, call, parsed, events, request, result>>

\* The caller's handlers record what they are given and leave handlers.noEvent
\* as the caller set it.
Handlers == [noEvent : BOOLEAN]

NoCall == [rawText |-> <<>>, raw |-> <<>>, encoding |-> "", handlers |-> [noEvent |-> FALSE],
           path |-> "none"]
NoParsed == [isNull |-> TRUE, nodes |-> <<>>]

AttachmentPool == {[name |-> <<"file.bin">>, content |-> <<"bytes">>, size |-> s] : s \in {0, 2}}
Attachments == UNION {[1..n -> AttachmentPool] : n \in 0..MaxAttachments}
Hashes == {"h1", "h2"}
PGPOverhead == byteCount(mainContent) + byteCount(pgpHeaderContent)
Quotas == {Undefined}
            \cup {[given |-> TRUE, value |-> v] :
                    v \in (-1..MaxQuota) \cup {PGPOverhead + k : k \in 0..MaxQuota}}
CarbonCopies == {[given |-> FALSE, list |-> <<>>], [given |-> TRUE, list |-> <<<<"dave">>>>]}

NoRequest == [op |-> "none", message |-> <<>>, attachments |-> <<>>, quota |-> Undefined,
              pgpMIME |-> FALSE, armored |-> <<>>, sender |-> <<>>, to |-> <<>>,
              cc |-> [given |-> FALSE, list |-> <<>>], subject |-> <<>>, ids |-> <<>>]
Addressed(req) ==
  [req EXCEPT !.sender = <<"alice">>, !.to = <<<<"bob">>, <<"carol">>>>,
              !.subject = <<"subject">>]

Init ==
  /\ pc = "idle"
  /\ call = NoCall
  /\ parsed = NoParsed
  /\ events = <<>>
  /\ request = NoRequest
  /\ result = NoResult

\* parseMessage up to its await: parseInline runs to its end, parseMIME stops
\* at the hand-off to mailreader.parse.
parseMessage(rawText, handlers, encoding) ==
  IF MimeSignature(rawText)
  THEN /\ pc' = "parsing"
       /\ call' = [rawText |-> rawText, raw |-> pseudoBinary(rawText), encoding |-> encoding,
                   handlers |-> handlers, path |-> "mime"]
       /\ events' = <<>>
       /\ parsed' = NoParsed
  ELSE /\ pc' = "resolved"
       /\ call' = [rawText |-> rawText, raw |-> <<>>, encoding |-> encoding,
                   handlers |-> handlers, path |-> "inline"]
       /\ events' = parseInline(rawText, handlers, encoding)
       /\ parsed' = NoParsed

\* A caller decodes a raw text.
ParseMessage ==
  /\ pc = "idle"
  /\ \E rawText \in RawTexts, handlers \in Handlers, encoding \in Encodings :
       parseMessage(rawText, handlers, encoding)
  /\ request' = NoRequest
  /\ result' = NoResult

\* A caller decodes what buildMail({message, attachments}) returned as a string.
ParseBuilt ==
  /\ pc = "built"
  /\ request.op = "buildMail"
  /\ ~request.quota.given
  /\ result.status = "returned"
  /\ result.isString
  /\ \E handlers \in Handlers, encoding \in Encodings :
       parseMessage(result.text, handlers, encoding)
  /\ UNCHANGED <<request, result>>

\* mailreader.parse calls back with what it parsed.
MailreaderCallback ==
  /\ pc = "parsing"
  /\ \E p \in ParsedResults :
       /\ parsed' = p
       /\ events' = parseMIMECallback(p, call.handlers, call.encoding)
  /\ pc' = "resolved"
  /\ UNCHANGED <<call, request, result>>

\* The await of parseMessage continues; nothing of the call is kept.
ParseMessageReturn ==
  /\ pc = "resolved"
  /\ pc' = "idle"
  /\ call' = NoCall
  /\ parsed' = NoParsed
  /\ events' = <<>>
  /\ request' = NoRequest
  /\ result' = NoResult

\* The caller drops what the builder returned or threw.
BuildReturn ==
  /\ pc = "built"
  /\ pc' = "idle"
  /\ request' = NoRequest
  /\ result' = NoResult
  /\ UNCHANGED <<call, parsed, events>>

BuildMail ==
  /\ pc = "idle"
  /\ \E message \in Messages, attachments \in Attachments, quota \in Quotas,
        pgpMIME \in BOOLEAN :
       /\ request' = [NoRequest EXCEPT !.op = "buildMail", !.message = message,
                                       !.attachments = attachments, !.quota = quota,
                                       !.pgpMIME = pgpMIME]
       /\ result' = buildMail(request')
  /\ pc' = "built"
  /\ UNCHANGED <<call, parsed, events>>

BuildPGPMail ==
  /\ pc = "idle"
  /\ \E armored \in Messages, quota \in Quotas, cc \in CarbonCopies :
       /\ request' = Addressed([NoRequest EXCEPT !.op = "buildPGPMail",
                                                 !.armored = armored, !.quota = quota,
                                                 !.cc = cc])
       /\ result' = buildPGPMail(request')
  /\ pc' = "built"
  /\ UNCHANGED <<call, parsed, events>>

BuildTextMail ==
  /\ pc = "idle"
  /\ \E armored \in Messages, quota \in Quotas :
       /\ request' = Addressed([NoRequest EXCEPT !.op = "buildTextMail",
                                                 !.armored = armored, !.quota = quota])
       /\ result' = buildTextMail(request')
  /\ pc' = "built"
  /\ UNCHANGED <<call, parsed, events>>

BuildMailWithHeader ==
  /\ pc = "idle"
  /\ \E message \in Messages, attachments \in Attachments, quota \in Quotas :
       \E ids \in [1..Len(attachments) -> Hashes] :
         /\ request' = Addressed([NoRequest EXCEPT !.op = "buildMailWithHeader",
                                                   !.message = message,
                                                   !.attachments = attachments,
                                                   !.quota = quota, !.ids = ids])
         /\ result' = buildMailWithHeader(request')
  /\ pc' = "built"
  /\ UNCHANGED <<call, parsed, events>>

Next ==
  \/ ParseMessage
  \/ ParseBuilt
  \/ MailreaderCallback
  \/ ParseMessageReturn
  \/ BuildMail
  \/ BuildPGPMail
  \/ BuildTextMail
  \/ BuildMailWithHeader
  \/ BuildReturn

Spec == Init /\ [][Next]_vars

----------------------------------------------------------------------------
\* Properties

IsMessage(e) == e.handler = "onMessage"
IsAttachment(e) == e.handler = "onAttachment"
\* The arguments of the onMessage calls of the current decode call, in order.
Delivered == [i \in 1..Len(SelectSeq(events, IsMessage)) |-> SelectSeq(events, IsMessage)[i].msg]
\* The parts handed to onAttachment, in order.
Attached == [i \in 1..Len(SelectSeq(events, IsAttachment)) |->
               SelectSeq(events, IsAttachment)[i].part]

\* The positions of the parts of one type in the delivered tree, in depth-first order.
RECURSIVE PositionsFrom(_, _, _)
PositionsFrom(nodes, type, i) ==
  IF i > Len(nodes) THEN <<>>
  ELSE (IF nodes[i].type = type THEN <<i>> ELSE <<>>) \o PositionsFrom(nodes, type, i + 1)
Positions(type) == PositionsFrom(parsed.nodes, type, 1)
HasPart(type) == ~parsed.isNull /\ Positions(type) # <<>>
Contains(str, tok) == \E i \in 1..Len(str) : str[i] = tok

MimeResolved == pc = "resolved" /\ call.path = "mime"

\* C1: every decode call, on the MIME path or the inline path, invokes
\* onMessage at most once before it resolves.
C1_OnMessageAtMostOnce == pc = "resolved" => Len(Delivered) <= 1

\* C2: buildMail with no attachments fails with ENCRYPT_QUOTA_SIZE when the
\* quota is byteLength(message) - 1 and returns output when the quota is
\* byteLength(message).
C2_QuotaBoundary ==
  (pc = "built" /\ request.op = "buildMail" /\ request.attachments = <<>>
     /\ request.quota.given)
  => /\ request.quota.value = byteCount(request.message) - 1
          => (result.status = "thrown" /\ result.code = "ENCRYPT_QUOTA_SIZE")
     /\ request.quota.value = byteCount(request.message) => result.status = "returned"

\* C3: in every builder the count compared against the quota is the byte
\* length of the message or armored body plus, in the two mixed builders, the
\* declared attachment sizes, and nothing else; a build given a quota fails
\* exactly when that count exceeds the quota.
C3_QuotaCount ==
  pc = "built"
  => LET mixed == request.op \in {"buildMail", "buildMailWithHeader"}
         count == IF mixed
                  THEN byteCount(request.message) + attachmentSizes(request.attachments)
                  ELSE byteCount(request.armored)
     IN /\ result.quotaSize = count
        /\ request.quota.given
             => (result.status = "thrown" <=> count > request.quota.value)

RoundTrip ==
  /\ pc = "resolved"
  /\ request.op = "buildMail"
  /\ request.attachments = <<>>
  /\ ~request.pgpMIME
  /\ call.rawText = result.text
  /\ call.encoding = "text"

\* C4 as stated: decoding as 'text' what buildMail returned for a message m
\* without attachments delivers exactly m, for every m that does not start
\* with a MIME header (the reading of "no multipart markers").
C4_RoundTripAnyText ==
  (RoundTrip /\ ~MimeSignature(request.message)) => Delivered = <<request.message>>

\* C4 amended: the same, for every m that neither starts with a MIME header
\* nor contains one of the legacy closing-tag markers.
C4_RoundTripPlainText ==
  (RoundTrip /\ ~MimeSignature(request.message) /\ ~LegacyHtml(request.message))
  => Delivered = <<request.message>>

C4_Witness ==
  /\ RoundTrip
  /\ request.message = <<"a">>
  /\ Delivered = <<<<"a">>>>

\* C5: with handlers.noEvent set, a MIME decode whose tree is absent, empty or
\* without html and text parts invokes onMessage exactly once, with ''.
C5_EmptyResult ==
  (MimeResolved /\ call.handlers.noEvent /\ ~HasPart("html") /\ ~HasPart("text"))
  => Delivered = <<<<>>>>

C5_Witness ==
  /\ MimeResolved
  /\ call.handlers.noEvent
  /\ HasPart("attachment")
  /\ ~HasPart("html")
  /\ ~HasPart("text")
  /\ Delivered = <<<<>>>>

\* C6: for a tree with both an html and a text part, 'html' delivers the
\* sanitized html contents and 'text' the text contents verbatim; a converted
\* part is delivered only when the tree has no part of the requested kind.
C6_BodyPreference ==
  MimeResolved
  => /\ (HasPart("html") /\ HasPart("text") /\ call.encoding = "html")
          => /\ Len(Delivered) >= 1
             /\ Delivered[1] = sanitizeHTML(join([i \in 1..Len(Positions("html")) |->
                                                    PartContent(Positions("html")[i])],
                                                 htmlSeparator))
     /\ (HasPart("html") /\ HasPart("text") /\ call.encoding = "text")
          => /\ Len(Delivered) >= 1
             /\ Delivered[1] = join([i \in 1..Len(Positions("text")) |->
                                       PartContent(Positions("text")[i])],
                                    textSeparator)
     /\ \A k \in 1..Len(Delivered) :
          /\ Contains(Delivered[k], "text2autoLinkHtml(")
               => (call.encoding = "html" /\ ~HasPart("html"))
          /\ Contains(Delivered[k], "html2text(")
               => (call.encoding = "text" /\ ~HasPart("text"))

C6_Witness ==
  /\ MimeResolved
  /\ call.encoding = "html"
  /\ Len(parsed.nodes) = 3
  /\ parsed.nodes[1].type = "signed"
  /\ parsed.nodes[2].type = "text"
  /\ parsed.nodes[2].depth = 1
  /\ parsed.nodes[3].type = "html"
  /\ Delivered[1] = sanitizeHTML(PartContent(3))

\* C7: onAttachment is invoked exactly once for every attachment part of the
\* tree, at any depth, in depth-first, left-to-right order.
C7_AttachmentOrder ==
  MimeResolved
  => /\ Len(Attached) = (IF parsed.isNull THEN 0 ELSE Len(Positions("attachment")))
     /\ \A k \in 1..Len(Attached) :
          /\ Attached[k].content = ab2str(PartContent(Positions("attachment")[k]))
          /\ Attached[k].filename = encodeHTML(PartFilename(Positions("attachment")[k]))

C7_Witness ==
  /\ MimeResolved
  /\ Len(parsed.nodes) = 4
  /\ parsed.nodes[2].type = "signed"
  /\ parsed.nodes[2].depth = 1
  /\ parsed.nodes[3].type = "attachment"
  /\ parsed.nodes[3].depth = 2
  /\ parsed.nodes[4].type = "attachment"
  /\ parsed.nodes[4].depth = 0
  /\ Len(Attached) = 2

\* Attachments three containers deep are emitted.
C7_WitnessDeep ==
  /\ MimeResolved
  /\ Len(parsed.nodes) = 4
  /\ parsed.nodes[4].type = "attachment"
  /\ parsed.nodes[4].depth = 3
  /\ Len(Attached) = 1

\* C8: whenever buildPGPMail produces output, the multipart/encrypted
\* container has exactly two children: first the application/pgp-encrypted
\* part with body 'Version: 1', then the application/octet-stream part
\* holding the armored text.
C8_PGPChildOrder ==
  (pc = "built" /\ request.op = "buildPGPMail" /\ result.status = "returned")
  => /\ Len(result.mime.children) = 2
     /\ result.mime.children[1].contentType = "application/pgp-encrypted"
     /\ result.mime.children[1].content = <<"Version: 1">>
     /\ result.mime.children[2].contentType
          = "application/octet-stream; name=\"encrypted.asc\""
     /\ result.mime.children[2].content = request.armored

C8_Witness ==
  /\ pc = "built"
  /\ request.op = "buildPGPMail"
  /\ request.armored = <<"a">>
  /\ request.quota.given
  /\ result.status = "returned"
  /\ Len(result.mime.children) = 2

HtmlFallback ==
  /\ MimeResolved
  /\ call.encoding = "html"
  /\ ~HasPart("html")
  /\ HasPart("text")

AutoLinkedTexts ==
  [i \in 1..Len(Positions("text")) |-> text2autoLinkHtml(PartContent(Positions("text")[i]))]

\* C9 as stated: in the html fallback the auto-linked text parts are
\* concatenated in tree order with nothing between them.
C9_FallbackNoSeparator ==
  HtmlFallback => (Len(Delivered) >= 1 /\ Delivered[1] = join(AutoLinkedTexts, <<>>))

\* C9 amended: in the html fallback the auto-linked text parts are joined in
\* tree order with the separator '<hr>' (the rule without the newlines of the
\* html branch).
C9_FallbackRuleSeparator ==
  HtmlFallback => (Len(Delivered) >= 1 /\ Delivered[1] = join(AutoLinkedTexts, <<"<hr>">>))

C9_Witness ==
  /\ HtmlFallback
  /\ Len(Positions("text")) = 2
  /\ Contains(Delivered[1], "<hr>")

\* C10: the MIME decode promise resolves only after the parser callback ran
\* and dispatched every handler call: no handler call before the callback,
\* none after resolve(), and the selected body's onMessage before every
\* onAttachment.
C10_CompletionOrder ==
  /\ pc = "parsing" => events = <<>>
  /\ MimeResolved
       => /\ Len(events) >= 1
          /\ events[Len(events)] = resolve
          /\ \A i \in 1..(Len(events) - 1) : events[i] # resolve
          /\ (HasPart("html") \/ HasPart("text"))
               => (IsMessage(events[1]) /\ events[1].msg # <<>>)
          /\ \A i, j \in 1..Len(events) :
               (i < j /\ IsAttachment(events[i]) /\ IsMessage(events[j]))
                 => events[j].msg = <<>>

C10_Witness ==
  /\ MimeResolved
  /\ call.handlers.noEvent
  /\ Len(events) = 5
  /\ IsMessage(events[1])
  /\ IsAttachment(events[2])
  /\ IsAttachment(events[3])
  /\ IsMessage(events[4])
  /\ events[5] = resolve

====
